---- MODULE Spec2Model ----
(***************************************************************************)
(* SimpleCADPricer (cad_pricer_simple.py): the coupon schedule             *)
(* (prior_coupon_date, next_coupon_date), interest_accrued and the         *)
(* cashflow walk of get_clean_price, as a call-stack state machine.        *)
(*                                                                         *)
(* Dates are records [year, month, day] with the arithmetic of Python's    *)
(* datetime.date (ordering, day differences) and of datedelta (month       *)
(* addition).  The float present value is not computed: the walk keeps the *)
(* period counter n and the candidate date, interest_accrued keeps its day *)
(* counts and its result as an exact fraction.                             *)
(***************************************************************************)
EXTENDS Integers, Sequences, FiniteSets, TLC

VARIABLES
    op,             \* the public function the caller invoked
    settlement,     \* argument settlement
    maturity,       \* argument maturity
    frequency,      \* argument frequency
    coupon_rate,    \* argument coupon_rate: [nan, bp], bp in units of 1e-4
    now_year,       \* dt.datetime.now().year as read by prior_coupon_date
    pc,             \* position in the code
    stack,          \* return positions of the active calls
    error,          \* the exception that ended the call, "" when none
    cand,           \* prior_coupon_date: its local prior_coupon_dt
    ret_date,       \* value returned by the last schedule call
    ret_val,        \* value returned by interest_accrued, as a fraction
    nx_prior,       \* next_coupon_date: the prior_coupon_date it was given
    nx_second,      \* next_coupon_date: whether line 79 ran
    ia_prior,       \* interest_accrued: prior_coupon_dt
    ia_next,        \* interest_accrued: next_coupon_dt
    cp_prior,       \* get_clean_price: prior_coupon_dt
    cp_next,        \* get_clean_price: next_coupon_dt
    cp_first,       \* get_clean_price: first_next_coupon
    cp_n,           \* get_clean_price: n
    seen_prior,     \* <<clock year, date>> of every prior_coupon_date return
    seen_next       \* <<clock year, date>> of every next_coupon_date return

vars == <<op, settlement, maturity, frequency, coupon_rate, now_year, pc,
          stack, error, cand, ret_date, ret_val, nx_prior, nx_second,
          ia_prior, ia_next, cp_prior, cp_next, cp_first, cp_n,
          seen_prior, seen_next>>

----------------------------------------------------------------------------
(* Bounds of the explored inputs *)

BaseYear == 2020

\* settlement, maturity and clock years range over BaseYear..BaseYear+MaxYearOffset
MaxYearOffset == 1

\* frequencies explored by the termination specification: 1..MaxFrequency
MaxFrequency == 13

Years == BaseYear..(BaseYear + MaxYearOffset)

Days == {1, 15, 29, 31}

SettlementMonths == {2, 3, 8, 12}

MaturityMonths == {2, 8}

\* frequencies for which 12 / frequency is a whole number of months
Frequencies == {1, 2, 3, 4, 6, 12}

----------------------------------------------------------------------------
(* datetime.date *)

MkDate(y, m, d) == [year |-> y, month |-> m, day |-> d]

NoDate == MkDate(0, 0, 0)

IsLeap(y) == (y % 4 = 0) /\ ((y % 100 # 0) \/ (y % 400 = 0))

DaysInMonth(y, m) ==
    IF m = 2 THEN (IF IsLeap(y) THEN 29 ELSE 28)
    ELSE IF m \in {4, 6, 9, 11} THEN 30 ELSE 31

\* dt.date(y, m, d) raises ValueError unless the day exists
ValidDate(y, m, d) == m \in 1..12 /\ d >= 1 /\ d <= DaysInMonth(y, m)

DaysBeforeMonth(y, m) ==
    LET t == <<0, 31, 59, 90, 120, 151, 181, 212, 243, 273, 304, 334>>
    IN  t[m] + (IF m > 2 /\ IsLeap(y) THEN 1 ELSE 0)

\* date.toordinal(): day 1 is 0001-01-01
Ord(dte) ==
    LET y == dte.year - 1
    IN  y * 365 + (y \div 4) - (y \div 100) + (y \div 400)
          + DaysBeforeMonth(dte.year, dte.month) + dte.day

\* a < b, a <= b on dates
Lt(a, b) == Ord(a) < Ord(b)

Le(a, b) == Ord(a) <= Ord(b)

\* (a - b).days
DaysBetween(a, b) == Ord(a) - Ord(b)

----------------------------------------------------------------------------
(* datedelta.datedelta(months=k): date + delta and date - delta.           *)
(* The month is shifted and the day kept.  When adding months to a 29th,   *)
(* 30th or 31st gives a day that does not exist in the target month,       *)
(* datedelta changes the result to the first day of the next month (it     *)
(* does not truncate to the last day of the month, as dateutil does):      *)
(* date(2020, 1, 31) + datedelta(months=1) = date(2020, 3, 1).  Subtracting *)
(* is adding the negated delta.                                            *)

AddMonths(dte, k) ==
    LET t  == dte.year * 12 + (dte.month - 1) + k
        y  == t \div 12
        m  == (t % 12) + 1
    IN  IF dte.day <= DaysInMonth(y, m) THEN MkDate(y, m, dte.day)
        ELSE MkDate((t + 1) \div 12, ((t + 1) % 12) + 1, 1)

SubMonths(dte, k) == AddMonths(dte, 0 - k)

\* months=12 // frequency
Period(f) == 12 \div f

----------------------------------------------------------------------------
(* Call and return *)

ZeroVal == [num |-> 0, den |-> 1]

NaNRate == [nan |-> TRUE, bp |-> 0]

Rate(bp) == [nan |-> FALSE, bp |-> bp]

Abs(x) == IF x < 0 THEN 0 - x ELSE x

\* coupon rates 0.02 and -0.02, below the 1e-3 cut, and not-a-number
CouponRates == {Rate(200), Rate(0 - 200), Rate(5), NaNRate}

\* nominal: float = 100.0
Nominal == 100

Entry(o) ==
    CASE o = "prior_coupon_date" -> "prior_entry"
      [] o = "next_coupon_date"  -> "next_entry"
      [] o = "interest_accrued"  -> "ia_entry"
      [] o = "get_clean_price"   -> "cp_entry"

\* an uncaught exception unwinds every active call
Raise(e) ==
    /\ pc' = "raised"
    /\ error' = e
    /\ stack' = <<>>

\* return to the caller on top of the stack
Return ==
    /\ pc' = Head(stack)
    /\ stack' = Tail(stack)
    /\ error' = error

Call(entry, resume) ==
    /\ pc' = entry
    /\ stack' = <<resume>> \o stack
    /\ error' = error

----------------------------------------------------------------------------
(* prior_coupon_date, lines 83-110 *)

Anchor == MkDate(now_year, maturity.month, maturity.day)

\* the seed of lines 90-92 with the step back of lines 93-96 left out
PriorSeedNoStepBack == Anchor

\* lines 90-96: seed with the clock year, step back once when after settlement
PriorSeed ==
    IF Lt(settlement, Anchor) THEN SubMonths(Anchor, Period(frequency))
    ELSE Anchor

PriorCouponDateEntry ==
    /\ pc = "prior_entry"
    /\ IF ~ValidDate(now_year, maturity.month, maturity.day)
       THEN /\ Raise("ValueError")
            /\ cand' = cand
       ELSE /\ cand' = PriorSeed
            /\ pc' = "prior_loop"
            /\ UNCHANGED <<stack, error>>
    /\ UNCHANGED <<op, settlement, maturity, frequency, coupon_rate, now_year,
                   ret_date, ret_val, nx_prior, nx_second, ia_prior, ia_next,
                   cp_prior, cp_next, cp_first, cp_n, seen_prior, seen_next>>

\* the loop of lines 99-106 written as a single "if": one period at most
CanAddPeriodOnce ==
    /\ Lt(AddMonths(cand, Period(frequency)), settlement)
    /\ cand = PriorSeed

\* lines 100-103: the condition of the loop
CanAddPeriod == Lt(AddMonths(cand, Period(frequency)), settlement)

\* lines 99-104: one iteration that adds a period
PriorCouponDateLoop ==
    /\ pc = "prior_loop"
    /\ CanAddPeriod
    /\ cand' = AddMonths(cand, Period(frequency))
    /\ UNCHANGED <<op, settlement, maturity, frequency, coupon_rate, now_year,
                   pc, stack, error, ret_date, ret_val, nx_prior, nx_second,
                   ia_prior, ia_next, cp_prior, cp_next, cp_first, cp_n,
                   seen_prior, seen_next>>

\* the assertion of line 108 written with <= in place of <
PriorAssertionLe == Le(cand, settlement)

\* line 108: assert prior_coupon_dt < settlement
PriorAssertion == Lt(cand, settlement)

\* lines 105-110: break, the assertion, return
PriorCouponDateExit ==
    /\ pc = "prior_loop"
    /\ ~CanAddPeriod
    /\ IF PriorAssertion
       THEN /\ Return
            /\ ret_date' = cand
            /\ seen_prior' = seen_prior \cup {<<now_year, cand>>}
       ELSE /\ Raise("AssertionError")
            /\ UNCHANGED <<ret_date, seen_prior>>
    /\ UNCHANGED <<op, settlement, maturity, frequency, coupon_rate, now_year,
                   cand, ret_val, nx_prior, nx_second, ia_prior, ia_next,
                   cp_prior, cp_next, cp_first, cp_n, seen_next>>

----------------------------------------------------------------------------
(* next_coupon_date, lines 68-81 *)

\* lines 75-77: the call of prior_coupon_date
NextCouponDateEntry ==
    /\ pc = "next_entry"
    /\ Call("prior_entry", "next_resume")
    /\ UNCHANGED <<op, settlement, maturity, frequency, coupon_rate, now_year,
                   cand, ret_date, ret_val, nx_prior, nx_second, ia_prior,
                   ia_next, cp_prior, cp_next, cp_first, cp_n, seen_prior,
                   seen_next>>

\* line 77: prior + one period
NextFirst(p) == AddMonths(p, Period(frequency))

\* line 78: the test for one more period
NeedsSecond(p) == Lt(NextFirst(p), settlement)

\* lines 77-79
NextValue(p) ==
    IF NeedsSecond(p) THEN AddMonths(NextFirst(p), Period(frequency))
    ELSE NextFirst(p)

\* line 80: assert settlement <= next_coupon_dt
NextAssertion(n) == Le(settlement, n)

\* lines 77-81: add the period(s), the assertion, return
NextCouponDateResume ==
    /\ pc = "next_resume"
    /\ nx_prior' = ret_date
    /\ nx_second' = NeedsSecond(ret_date)
    /\ IF NextAssertion(NextValue(ret_date))
       THEN /\ Return
            /\ ret_date' = NextValue(ret_date)
            /\ seen_next' = seen_next \cup {<<now_year, NextValue(ret_date)>>}
       ELSE /\ Raise("AssertionError")
            /\ UNCHANGED <<ret_date, seen_next>>
    /\ UNCHANGED <<op, settlement, maturity, frequency, coupon_rate, now_year,
                   cand, ret_val, ia_prior, ia_next, cp_prior, cp_next,
                   cp_first, cp_n, seen_prior>>

----------------------------------------------------------------------------
(* interest_accrued, lines 155-175 *)

\* lines 163-166: not-a-number or |coupon_rate| < 1e-3 returns 0.0
SkipsAccrual == coupon_rate.nan \/ Abs(coupon_rate.bp) < 10

\* lines 163-170: the guards, then the call of prior_coupon_date
InterestAccruedEntry ==
    /\ pc = "ia_entry"
    /\ IF SkipsAccrual
       THEN /\ Return
            /\ ret_val' = ZeroVal
       ELSE /\ Call("prior_entry", "ia_after_prior")
            /\ ret_val' = ret_val
    /\ UNCHANGED <<op, settlement, maturity, frequency, coupon_rate, now_year,
                   cand, ret_date, nx_prior, nx_second, ia_prior, ia_next,
                   cp_prior, cp_next, cp_first, cp_n, seen_prior, seen_next>>

\* lines 168-171: keep prior_coupon_dt, call next_coupon_date
InterestAccruedAfterPrior ==
    /\ pc = "ia_after_prior"
    /\ ia_prior' = ret_date
    /\ Call("next_entry", "ia_after_next")
    /\ UNCHANGED <<op, settlement, maturity, frequency, coupon_rate, now_year,
                   cand, ret_date, ret_val, nx_prior, nx_second, ia_next,
                   cp_prior, cp_next, cp_first, cp_n, seen_prior, seen_next>>

\* the subtraction of lines 172-174 with its operands exchanged
AccrualDaysSwapped(s, p) == DaysBetween(p, s)

\* lines 172-174: (settlement - prior_coupon_dt).days
AccrualDays(s, p) == DaysBetween(s, p)

\* lines 172-174: coupon_rate * nominal / frequency * days / period days,
\* as the fraction num / den in units of 1e-4
Accrued(s, p, n) ==
    [num |-> coupon_rate.bp * Nominal * AccrualDays(s, p),
     den |-> frequency * DaysBetween(n, p)]

\* lines 171-175: keep next_coupon_dt, compute and return the accrual
InterestAccruedAfterNext ==
    /\ pc = "ia_after_next"
    /\ ia_next' = ret_date
    /\ IF DaysBetween(ret_date, ia_prior) = 0
       THEN /\ Raise("ZeroDivisionError")
            /\ ret_val' = ret_val
       ELSE /\ Return
            /\ ret_val' = Accrued(settlement, ia_prior, ret_date)
    /\ UNCHANGED <<op, settlement, maturity, frequency, coupon_rate, now_year,
                   cand, ret_date, nx_prior, nx_second, ia_prior, cp_prior,
                   cp_next, cp_first, cp_n, seen_prior, seen_next>>

----------------------------------------------------------------------------
(* get_clean_price, lines 112-153 *)

\* lines 122-124: the call of prior_coupon_date
GetCleanPriceEntry ==
    /\ pc = "cp_entry"
    /\ Call("prior_entry", "cp_after_prior")
    /\ UNCHANGED <<op, settlement, maturity, frequency, coupon_rate, now_year,
                   cand, ret_date, ret_val, nx_prior, nx_second, ia_prior,
                   ia_next, cp_prior, cp_next, cp_first, cp_n, seen_prior,
                   seen_next>>

\* lines 122-125: keep prior_coupon_dt, call next_coupon_date
GetCleanPriceAfterPrior ==
    /\ pc = "cp_after_prior"
    /\ cp_prior' = ret_date
    /\ Call("next_entry", "cp_after_next")
    /\ UNCHANGED <<op, settlement, maturity, frequency, coupon_rate, now_year,
                   cand, ret_date, ret_val, nx_prior, nx_second, ia_prior,
                   ia_next, cp_next, cp_first, cp_n, seen_prior, seen_next>>

\* lines 125-132: first_next_coupon, w (a division by the period's days), n = 0
GetCleanPriceAfterNext ==
    /\ pc = "cp_after_next"
    /\ cp_next' = ret_date
    /\ cp_first' = ret_date
    /\ IF DaysBetween(ret_date, cp_prior) = 0
       THEN /\ Raise("ZeroDivisionError")
            /\ cp_n' = cp_n
       ELSE /\ pc' = "cp_walk"
            /\ cp_n' = 0
            /\ UNCHANGED <<stack, error>>
    /\ UNCHANGED <<op, settlement, maturity, frequency, coupon_rate, now_year,
                   cand, ret_date, ret_val, nx_prior, nx_second, ia_prior,
                   ia_next, cp_prior, seen_prior, seen_next>>

\* line 133: the loop runs while the candidate differs from maturity
WalkContinues == cp_next # maturity

\* the walk is followed until the candidate is this many years past maturity;
\* a candidate past maturity only grows and never equals it again
WalkOvershootYears == 1

\* lines 133-139: one coupon cashflow, n += 1, the candidate advances a period
GetCleanPriceWalk ==
    /\ pc = "cp_walk"
    /\ WalkContinues
    /\ cp_next.year <= maturity.year + WalkOvershootYears
    /\ cp_n' = cp_n + 1
    /\ cp_next' = AddMonths(cp_next, Period(frequency))
    /\ UNCHANGED <<op, settlement, maturity, frequency, coupon_rate, now_year,
                   pc, stack, error, cand, ret_date, ret_val, nx_prior,
                   nx_second, ia_prior, ia_next, cp_prior, cp_first,
                   seen_prior, seen_next>>

\* lines 141-153: the final cashflow, then the call of interest_accrued
GetCleanPriceWalkExit ==
    /\ pc = "cp_walk"
    /\ ~WalkContinues
    /\ Call("ia_entry", "cp_after_ia")
    /\ UNCHANGED <<op, settlement, maturity, frequency, coupon_rate, now_year,
                   cand, ret_date, ret_val, nx_prior, nx_second, ia_prior,
                   ia_next, cp_prior, cp_next, cp_first, cp_n, seen_prior,
                   seen_next>>

\* line 147: return pv - interest_accrued(...)
GetCleanPriceReturn ==
    /\ pc = "cp_after_ia"
    /\ Return
    /\ UNCHANGED <<op, settlement, maturity, frequency, coupon_rate, now_year,
                   cand, ret_date, ret_val, nx_prior, nx_second, ia_prior,
                   ia_next, cp_prior, cp_next, cp_first, cp_n, seen_prior,
                   seen_next>>

----------------------------------------------------------------------------
(* The callers *)

DatesOf(years, months) ==
    {dte \in [year : years, month : months, day : Days] :
        ValidDate(dte.year, dte.month, dte.day)}

SettlementDates == DatesOf(Years, SettlementMonths)

MaturityDates == DatesOf(Years, MaturityMonths)

\* coupon_rate is an argument of interest_accrued and get_clean_price only
RatesFor(o) ==
    IF o = "interest_accrued" THEN CouponRates ELSE {Rate(200)}

InitWith(ops, freqs) ==
    /\ op \in ops
    /\ settlement \in SettlementDates
    /\ maturity \in MaturityDates
    /\ frequency \in freqs
    /\ coupon_rate \in RatesFor(op)
    /\ now_year \in Years
    /\ pc = Entry(op)
    /\ stack = <<"done">>
    /\ error = ""
    /\ cand = NoDate
    /\ ret_date = NoDate
    /\ ret_val = ZeroVal
    /\ nx_prior = NoDate
    /\ nx_second = FALSE
    /\ ia_prior = NoDate
    /\ ia_next = NoDate
    /\ cp_prior = NoDate
    /\ cp_next = NoDate
    /\ cp_first = NoDate
    /\ cp_n = 0
    /\ seen_prior = {}
    /\ seen_next = {}

Ops == {"prior_coupon_date", "next_coupon_date", "interest_accrued",
        "get_clean_price"}

Init == InitWith(Ops, Frequencies)

Next ==
    \/ PriorCouponDateEntry
    \/ PriorCouponDateLoop
    \/ PriorCouponDateExit
    \/ NextCouponDateEntry
    \/ NextCouponDateResume
    \/ InterestAccruedEntry
    \/ InterestAccruedAfterPrior
    \/ InterestAccruedAfterNext
    \/ GetCleanPriceEntry
    \/ GetCleanPriceAfterPrior
    \/ GetCleanPriceAfterNext
    \/ GetCleanPriceWalk
    \/ GetCleanPriceWalkExit
    \/ GetCleanPriceReturn

Spec == Init /\ [][Next]_vars

----------------------------------------------------------------------------
(* The schedule alone, for every positive frequency up to MaxFrequency.    *)
(* The interpreter always runs the next statement: weak fairness of the    *)
(* steps of prior_coupon_date.                                             *)

AnyFrequencies == 1..MaxFrequency

InitAny == InitWith({"prior_coupon_date"}, AnyFrequencies)

NextPrior ==
    \/ PriorCouponDateEntry
    \/ PriorCouponDateLoop
    \/ PriorCouponDateExit

SpecAny == InitAny /\ [][NextPrior]_vars /\ WF_vars(NextPrior)

----------------------------------------------------------------------------
(* The same call of next_coupon_date repeated as the clock advances *)

\* the caller calls again with the same arguments in a later year
ClockTick ==
    /\ pc \in {"done", "raised"}
    /\ now_year < BaseYear + MaxYearOffset
    /\ now_year' = now_year + 1
    /\ pc' = Entry(op)
    /\ stack' = <<"done">>
    /\ error' = ""
    /\ cand' = NoDate
    /\ ret_date' = NoDate
    /\ nx_prior' = NoDate
    /\ nx_second' = FALSE
    /\ UNCHANGED <<op, settlement, maturity, frequency, coupon_rate, ret_val,
                   ia_prior, ia_next, cp_prior, cp_next, cp_first, cp_n,
                   seen_prior, seen_next>>

InitClock ==
    /\ InitWith({"next_coupon_date"}, Frequencies)
    /\ now_year = BaseYear

NextClock ==
    \/ PriorCouponDateEntry
    \/ PriorCouponDateLoop
    \/ PriorCouponDateExit
    \/ NextCouponDateEntry
    \/ NextCouponDateResume
    \/ ClockTick

SpecClock == InitClock /\ [][NextClock]_vars

----------------------------------------------------------------------------
(* Vocabulary of the properties *)

\* prior_coupon_date has just returned ret_date to its caller
PriorReturned ==
    \/ pc \in {"next_resume", "ia_after_prior", "cp_after_prior"}
    \/ (op = "prior_coupon_date" /\ pc = "done")

\* next_coupon_date has just returned ret_date; nx_prior is the prior it used
NextReturned ==
    \/ pc \in {"ia_after_next", "cp_after_next"}
    \/ (op = "next_coupon_date" /\ pc = "done")

\* interest_accrued has just returned ret_val from lines 168-175
AccruedComputed ==
    /\ \/ pc = "cp_after_ia"
       \/ (op = "interest_accrued" /\ pc = "done")
    /\ ~SkipsAccrual

\* dte has maturity's day and lies a whole number of periods from its month
OnLattice(dte) ==
    /\ dte.day = maturity.day
    /\ (dte.month - maturity.month + 12) % Period(frequency) = 0

\* adding months with the day clamped to the last day of the target month
AddMonthsClamped(dte, k) ==
    LET t == dte.year * 12 + (dte.month - 1) + k
        y == t \div 12
        m == (t % 12) + 1
    IN  MkDate(y, m, IF dte.day <= DaysInMonth(y, m) THEN dte.day
                     ELSE DaysInMonth(y, m))

\* settlement is a coupon date of the bond
OnCouponDate == OnLattice(settlement)

\* a call of op has ended, by a return or by an exception
CallEnded == pc \in {"done", "raised"}

----------------------------------------------------------------------------
(* C1 *)

\* C1, as stated: whenever next_coupon_date returns (and with it
\* prior_coupon_date), prior <= settlement < next.
C1_SandwichAsStated ==
    NextReturned => (Le(nx_prior, settlement) /\ Lt(settlement, ret_date))

\* C1, amended: whenever next_coupon_date returns, prior < settlement <= next
\* (strict on the side of prior, not of next).
C1_Sandwich ==
    NextReturned => (Lt(nx_prior, settlement) /\ Le(settlement, ret_date))

\* next_coupon_date returned the settlement date itself
C1_Witness == NextReturned /\ ret_date = settlement /\ Lt(nx_prior, settlement)

----------------------------------------------------------------------------
(* C2 *)

\* C2: a call of next_coupon_date with settlement on a coupon date (maturity
\* day up to 28, so that the coupon dates keep maturity's day) ends by
\* returning settlement, whatever the clock year.
C2_NextIsSettlement ==
    (op = "next_coupon_date" /\ CallEnded /\ OnCouponDate /\ maturity.day <= 28)
        => (pc = "done" /\ ret_date = settlement)

----------------------------------------------------------------------------
(* C3 *)

----------------------------------------------------------------------------
(* C4 *)

\* C4, as stated: with settlement on a coupon date, the accrual day count of
\* interest_accrued is 0 and so is the accrual it returns.
C4_ZeroOnCouponDate ==
    (AccruedComputed /\ OnCouponDate) =>
        (AccrualDays(settlement, ia_prior) = 0 /\ ret_val.num = 0)

\* C4, amended: with settlement on a coupon date, the accrual day count of
\* interest_accrued is never 0 but strictly positive; for a maturity day up
\* to 28 it is the whole period (settlement - prior).days = (next - prior).days
\* with next = settlement, so the accrual is one whole coupon
\* coupon_rate * nominal / frequency.
C4_WholeCouponOnCouponDate ==
    (AccruedComputed /\ OnCouponDate) =>
        /\ AccrualDays(settlement, ia_prior) > 0
        /\ maturity.day <= 28 =>
              /\ ia_next = settlement
              /\ AccrualDays(settlement, ia_prior)
                    = DaysBetween(ia_next, ia_prior)
              /\ ret_val.num * frequency
                    = coupon_rate.bp * Nominal * ret_val.den

\* interest_accrued returned for a settlement on a coupon date
C4_Witness ==
    /\ AccruedComputed
    /\ OnCouponDate
    /\ maturity.day <= 28
    /\ ret_val.num # 0

----------------------------------------------------------------------------
(* C5 *)

\* C5: when interest_accrued returns for coupon_rate >= 1e-3 and a
\* settlement that is neither of the two coupon dates of its period, the day
\* counts satisfy 0 <= (settlement - prior).days <= (next - prior).days and
\* (next - prior).days > 0, and 0 <= accrual <= coupon_rate * nominal /
\* frequency (the accrual being num / den with den > 0).
C5_AccruedBounds ==
    (/\ AccruedComputed
     /\ coupon_rate.bp >= 10
     /\ settlement # ia_prior
     /\ settlement # ia_next) =>
        /\ 0 <= AccrualDays(settlement, ia_prior)
        /\ AccrualDays(settlement, ia_prior) <= DaysBetween(ia_next, ia_prior)
        /\ DaysBetween(ia_next, ia_prior) > 0
        /\ ret_val.den > 0
        /\ 0 <= ret_val.num
        /\ ret_val.num * frequency <= coupon_rate.bp * Nominal * ret_val.den

\* interest_accrued returned a positive accrual below one coupon
C5_Witness ==
    /\ AccruedComputed
    /\ coupon_rate.bp >= 10
    /\ Lt(ia_prior, settlement)
    /\ Lt(settlement, ia_next)
    /\ 0 < ret_val.num
    /\ ret_val.num * frequency < coupon_rate.bp * Nominal * ret_val.den

----------------------------------------------------------------------------
(* C7 *)

\* C7: for settlement <= maturity (frequency dividing 12, the schedule calls
\* having returned) the candidate date of the cashflow walk never passes
\* maturity: it stays at or before it until the loop exits on equality.
\* The candidate only grows, so a candidate past maturity never equals it.
C7_WalkReachesMaturity ==
    (pc = "cp_walk" /\ Le(settlement, maturity)) => Le(cp_next, maturity)

----------------------------------------------------------------------------
(* C8 *)

\* the two cases in which C8 expects the assertion to fail
C8_FailureCase ==
    \/ settlement = Anchor
    \/ Le(settlement, SubMonths(Anchor, Period(frequency)))

\* C8: for a maturity day up to 28 and a frequency dividing 12, a call of
\* prior_coupon_date ends by its AssertionError exactly when
\* settlement = anchor or settlement <= anchor - period; otherwise it returns
\* a lattice date d with d < settlement <= d + period.
C8_AssertionExactly ==
    (op = "prior_coupon_date" /\ CallEnded /\ maturity.day <= 28) =>
        /\ (pc = "raised") <=> C8_FailureCase
        /\ pc = "raised" => error = "AssertionError"
        /\ pc = "done" =>
              /\ OnLattice(ret_date)
              /\ Lt(ret_date, settlement)
              /\ Le(settlement, AddMonths(ret_date, Period(frequency)))

\* the assertion failed after the candidate was stepped back once
C8_Witness ==
    /\ op = "prior_coupon_date"
    /\ pc = "raised"
    /\ maturity.day <= 28
    /\ Lt(settlement, SubMonths(Anchor, Period(frequency)))
    /\ cand = SubMonths(Anchor, Period(frequency))

----------------------------------------------------------------------------
(* C9 *)

\* C9: every call of prior_coupon_date ends, by a return or an exception,
\* for every frequency in 1..MaxFrequency.  (With 12 // frequency = 0 an
\* iteration of the loop leaves every variable as it was: the program keeps
\* running, in the same state.)
C9_PriorTerminates == <>CallEnded

----------------------------------------------------------------------------
(* C10 *)

\* C10: for a maturity day up to 28 and a frequency dividing 12, all the
\* returns of prior_coupon_date for the same arguments give the same date
\* whatever the clock year, and so do all the returns of next_coupon_date.
C10_ClockIndependent ==
    maturity.day <= 28 =>
        /\ \A a \in seen_prior : \A b \in seen_prior : a[2] = b[2]
        /\ \A a \in seen_next : \A b \in seen_next : a[2] = b[2]

\* next_coupon_date returned under two different clock years
C10_Witness ==
    /\ maturity.day <= 28
    /\ \E a \in seen_next : \E b \in seen_next : a[1] # b[1]
    /\ \E a \in seen_prior : \E b \in seen_prior : a[1] # b[1]

====
